---------------------------- MODULE Spec2Model ----------------------------
(***************************************************************************)
(* A model of typemallow (src/typemallow/__init__.py): the registry of     *)
(* marshmallow schemas filled by the ts_interface decorator, and the       *)
(* generation of TypeScript enum and interface declarations by             *)
(* generate_ts.  Text is modelled as strings, built character by          *)
(* character the way the Python code builds it.                            *)
(***************************************************************************)
EXTENDS Integers, Sequences, FiniteSets, TLC

VARIABLES
    schemas,      \* __schemas: dict context -> list of registered classes
    enums,        \* __enums: dict context -> dict derived name -> choices
    output_file,  \* the file generate_ts opens at output_path
    fcontext,     \* the _FormatterContext of the latest call
    raised,       \* the exception the latest generate_ts call propagated
    returned,     \* what the latest decorator application returned
    regLog,       \* history: the decorator applications made so far
    recorded,     \* history: enums recorded (line 122) by the latest call
    calls,        \* history: the generate_ts calls made so far
    result,       \* the value the latest direct call of a helper returned
    lastOp        \* history: the operation that made the latest step

vars == <<schemas, enums, output_file, fcontext, raised, returned, regLog,
          recorded, calls, result, lastOp>>

-----------------------------------------------------------------------------
(* Bounds of the model.                                                    *)

MaxRegs == 2

MaxCalls == 3

MaxDecorations == 3

-----------------------------------------------------------------------------
(* Python's str operations, as far as the code uses them.                  *)

Char(s, i) == SubSeq(s, i, i)

LowerCase == "abcdefghijklmnopqrstuvwxyz"

UpperCase == "ABCDEFGHIJKLMNOPQRSTUVWXYZ"

\* the cased characters, with their upper-case and lower-case forms
LowerChars == {Char(LowerCase, i) : i \in 1..Len(LowerCase)}

UpperChars == {Char(UpperCase, i) : i \in 1..Len(UpperCase)}

ToUpperTable ==
    [c \in LowerChars |->
        Char(UpperCase, CHOOSE i \in 1..Len(LowerCase) : Char(LowerCase, i) = c)]

ToLowerTable ==
    [c \in UpperChars |->
        Char(LowerCase, CHOOSE i \in 1..Len(UpperCase) : Char(UpperCase, i) = c)]

IsCased(c) == c \in LowerChars \/ c \in UpperChars

IsSpace(c) == c \in {" ", "\t", "\n"}

ToUpper(c) == IF c \in LowerChars THEN ToUpperTable[c] ELSE c

ToLower(c) == IF c \in UpperChars THEN ToLowerTable[c] ELSE c

RECURSIVE StrUpperFrom(_, _)
StrUpperFrom(s, i) ==
    IF i > Len(s) THEN "" ELSE ToUpper(Char(s, i)) \o StrUpperFrom(s, i + 1)

\* str.upper()
StrUpper(s) == StrUpperFrom(s, 1)

RECURSIVE StrReplaceFrom(_, _, _, _)
StrReplaceFrom(s, old, new, i) ==
    IF i > Len(s) THEN ""
    ELSE (IF Char(s, i) = old THEN new ELSE Char(s, i))
         \o StrReplaceFrom(s, old, new, i + 1)

\* str.replace(old, new) for a one-character old
StrReplace(s, old, new) == StrReplaceFrom(s, old, new, 1)

RECURSIVE StrTitleFrom(_, _, _)
StrTitleFrom(s, i, prevCased) ==
    IF i > Len(s) THEN ""
    ELSE LET c == Char(s, i)
         IN (IF IsCased(c)
             THEN (IF prevCased THEN ToLower(c) ELSE ToUpper(c))
             ELSE c)
            \o StrTitleFrom(s, i + 1, IsCased(c))

\* str.title(): a cased character is upper-cased after an uncased one (or at
\* the start) and lower-cased after a cased one
StrTitle(s) == StrTitleFrom(s, 1, FALSE)

RECURSIVE StrDropSpacesFrom(_, _)
StrDropSpacesFrom(s, i) ==
    IF i > Len(s) THEN ""
    ELSE (IF IsSpace(Char(s, i)) THEN "" ELSE Char(s, i))
         \o StrDropSpacesFrom(s, i + 1)

\* ''.join(c for c in s if not c.isspace())
StrDropSpaces(s) == StrDropSpacesFrom(s, 1)

\* str.endswith(suffix)
EndsWith(s, suffix) ==
    /\ Len(s) >= Len(suffix)
    /\ SubSeq(s, Len(s) - Len(suffix) + 1, Len(s)) = suffix

RECURSIVE StrJoinFrom(_, _, _)
StrJoinFrom(sep, parts, i) ==
    IF i > Len(parts) THEN ""
    ELSE (IF i > 1 THEN sep ELSE "") \o parts[i] \o StrJoinFrom(sep, parts, i + 1)

\* sep.join(parts)
StrJoin(sep, parts) == StrJoinFrom(sep, parts, 1)

RECURSIVE StrRepeat(_, _)
\* s * n
StrRepeat(s, n) == IF n <= 0 THEN "" ELSE s \o StrRepeat(s, n - 1)

-----------------------------------------------------------------------------
(* Python's dict: the outer dicts are functions on the keys present, the   *)
(* inner enum dict keeps its keys in insertion order.                      *)

EmptyDict == <<>>

DictHas(d, k) == \E i \in 1..Len(d) : d[i].key = k

\* d[k] = v: an existing key keeps its place, a new key goes to the end
DictSet(d, k, v) ==
    IF DictHas(d, k)
    THEN [i \in 1..Len(d) |-> IF d[i].key = k THEN [key |-> k, val |-> v] ELSE d[i]]
    ELSE Append(d, [key |-> k, val |-> v])

DictGet(d, k) == d[CHOOSE i \in 1..Len(d) : d[i].key = k].val


-----------------------------------------------------------------------------
(* The classes the decorator and the generator are given: marshmallow      *)
(* schemas with their declared fields, and one class that is no schema.    *)

NoValidate == [type |-> "None"]

OneOf(choices) == [type |-> "OneOf", choices |-> choices]

Length == [type |-> "Length"]

NoField == [kind |-> "None"]

\* A marshmallow field with the defaults of fields.Field: required=False,
\* allow_none=False, validate=None
Field(kind) ==
    [kind |-> kind, required |-> FALSE, allow_none |-> FALSE,
     validate |-> NoValidate, nested |-> "", many |-> FALSE,
     inner |-> NoField, key_field |-> NoField, value_field |-> NoField]

Required(f) == [f EXCEPT !.required = TRUE]

AllowNone(f) == [f EXCEPT !.allow_none = TRUE]

Validate(f, v) == [f EXCEPT !.validate = v]

Nested(cls, many) == [Field("Nested") EXCEPT !.nested = cls, !.many = many]

List(inner) == [Field("List") EXCEPT !.inner = inner]

Dict(keys, values) ==
    [Field("Dict") EXCEPT !.key_field = keys, !.value_field = values]

Item(key, value) == [key |-> key, value |-> value]

UserSchema ==
    [is_schema |-> TRUE,
     declared_fields |-> <<
        Item("id", Required(Field("Integer"))),
        Item("role", Validate(Field("String"), OneOf(<<"admin", "user">>))),
        Item("friends", List(Nested("UserSchema", FALSE))) >>]

AccountSchema ==
    [is_schema |-> TRUE,
     declared_fields |-> <<
        Item("status",
             Required(Validate(Field("String"), OneOf(<<"open", "closed">>)))),
        Item("user_role",
             AllowNone(Validate(Field("String"), OneOf(<<"owner", "guest">>)))),
        Item("owner", Required(Nested("UserSchema", FALSE))),
        Item("members", Nested("UserSchema", TRUE)),
        Item("limits",
             Dict(Field("String"), AllowNone(Field("Integer")))) >>]

Address ==
    [is_schema |-> TRUE,
     declared_fields |-> <<
        Item("city", Required(Field("String"))),
        Item("zip", AllowNone(Validate(Field("Integer"), Length))),
        Item("tags", List(Field("String"))),
        Item("extra", Required(AllowNone(Field("Raw")))),
        Item("by_id",
             Dict(Field("Integer"), Dict(NoField, Field("String")))) >>]

TeamSchema ==
    [is_schema |-> TRUE,
     declared_fields |-> <<
        Item("lead", AllowNone(Nested("AccountSchema", FALSE))),
        Item("name", Required(Field("String"))),
        Item("role", Validate(Field("String"), OneOf(<<"dev", "ops">>))),
        Item("sites", Dict(Field("String"), Nested("Address", TRUE))),
        Item("counts", AllowNone(Dict(Field("String"), Field("Integer")))) >>]

PointSchema ==
    [is_schema |-> TRUE,
     declared_fields |-> <<
        Item("x", Required(Field("Integer"))),
        Item("label", Required(Field("String"))) >>]

Widget == [is_schema |-> FALSE, declared_fields |-> <<>>]

Classes ==
    [n \in {"UserSchema", "AccountSchema", "Address", "TeamSchema",
            "PointSchema", "Widget"} |->
        CASE n = "UserSchema" -> UserSchema
          [] n = "AccountSchema" -> AccountSchema
          [] n = "Address" -> Address
          [] n = "TeamSchema" -> TeamSchema
          [] n = "PointSchema" -> PointSchema
          [] OTHER -> Widget]

ClassNames == DOMAIN Classes

SchemaNames == {n \in ClassNames : Classes[n].is_schema}

\* issubclass(cls, Schema)
IsSchema(cls) == Classes[cls].is_schema

\* schema._declared_fields.items()
DeclaredFields(schema) == Classes[schema].declared_fields

Contexts == {"default", "internal"}

-----------------------------------------------------------------------------
(* The scalar type table (the mappings module).                            *)

\* mappings.get(kind, 'any')
MappingsGet(kind) ==
    CASE kind = "String" -> "string"
      [] kind = "Integer" -> "number"
      [] OTHER -> "any"

-----------------------------------------------------------------------------
(* _FormatterContext and the name formatters.                              *)

_FormatterContext ==
    [context |-> "default", strip_schema_keyword |-> FALSE,
     oneof_as_enum |-> TRUE, nested_inner |-> FALSE, scope |-> 1]

_snake_to_pascal_case(key) == StrDropSpaces(StrTitle(StrReplace(key, "_", " ")))

\* name[0:-len('Schema')]
StripSuffix(name) == SubSeq(name, 1, Len(name) - Len("Schema"))

_format_type_name(schema, context) ==
    IF context.strip_schema_keyword /\ EndsWith(schema, "Schema")
    THEN StripSuffix(schema)
    ELSE schema


-----------------------------------------------------------------------------
(* The registry: ts_interface and its decorator.                           *)

NoDict == [k \in {} |-> <<>>]

\* d[k] = v on an outer dict
OuterSet(d, k, v) == [x \in DOMAIN d \cup {k} |-> IF x = k THEN v ELSE d[x]]

\* a registry that merges repeated registrations
RegisterOneUnique(reg, ctx, cls) ==
    LET made == IF ctx \in DOMAIN reg THEN reg ELSE OuterSet(reg, ctx, <<>>)
    IN IF \E i \in 1..Len(made[ctx]) : made[ctx][i] = cls
       THEN made
       ELSE OuterSet(made, ctx, Append(made[ctx], cls))

\* if not ctx in __schemas: __schemas[ctx] = []; __schemas[ctx].append(cls)
RegisterOne(reg, ctx, cls) ==
    LET made == IF ctx \in DOMAIN reg THEN reg ELSE OuterSet(reg, ctx, <<>>)
    IN OuterSet(made, ctx, Append(made[ctx], cls))

RECURSIVE RegisterEach(_, _, _, _)
\* for ctx in context: ...
RegisterEach(reg, ctxs, i, cls) ==
    IF i > Len(ctxs) THEN reg
    ELSE RegisterEach(RegisterOne(reg, ctxs[i], cls), ctxs, i + 1, cls)

\* the decorator's effect on __schemas
decorator(reg, context, cls) ==
    IF IsSchema(cls)
    THEN IF context.is_list
         THEN RegisterEach(reg, context.names, 1, cls)
         ELSE RegisterOne(reg, context.name, cls)
    ELSE reg

One(name) == [is_list |-> FALSE, name |-> name]

Many(names) == [is_list |-> TRUE, names |-> names]

ContextArgs ==
    {One(c) : c \in Contexts} \cup {Many(<<"default", "internal">>)}

\* the schemas registered where generation runs
GenClasses == {"UserSchema", "AccountSchema"}

-----------------------------------------------------------------------------
(* The type mapper and the interface generator.  The mutable state they    *)
(* touch is threaded: context is the _FormatterContext object, g holds     *)
(* __enums and the history of the enums recorded.                          *)

\* context.scope += 1
EnterScope(context) == [context EXCEPT !.scope = @ + 1]

\* the decrement forgotten
LeaveScopeSkipped(context) == context

\* context.scope -= 1
LeaveScope(context) == [context EXCEPT !.scope = @ - 1]

\* __enums[context.context] = {}; __enums[context.context][name] = choices
RecordEnum(g, ctx, name, choices) ==
    [enums |-> OuterSet(g.enums, ctx, DictSet(EmptyDict, name, choices)),
     recorded |-> Append(g.recorded, [key |-> name, val |-> choices])]

\* if value.allow_none: ts_type += '| null'
NullUnion(ts_type, value) ==
    IF value.allow_none THEN ts_type \o "| null" ELSE ts_type

\* the marker on the required fields instead: if value.required: key += '?'
DisplayKeyInverted(key, value) == IF value.required THEN key \o "?" ELSE key

\* if not value.required: key += '?'
DisplayKey(key, value) == IF ~value.required THEN key \o "?" ELSE key

\* the element type of a List field
ListItemType(value, context) ==
    IF value.inner.kind = "Nested"
    THEN value.inner.nested \o "[]"
    ELSE MappingsGet(value.inner.kind) \o "[]"

RECURSIVE _get_ts_type(_, _, _)
RECURSIVE _get_ts_interface(_, _, _)
RECURSIVE FieldLoop(_, _, _)

\* if value.many: ts_type += '[]'
ManySuffix(r, value) == [r EXCEPT !.ts = IF value.many THEN @ \o "[]" ELSE @]

_get_ts_type(value, context, g) ==
    IF value.kind = "Nested" THEN
        ManySuffix(
            IF context.nested_inner
            THEN [_get_ts_interface(value.nested, EnterScope(context), g)
                    EXCEPT !.context = LeaveScope(@)]
            ELSE [ts |-> _format_type_name(value.nested, context),
                  context |-> context, g |-> g],
            value)
    ELSE IF value.kind = "List" THEN
        [ts |-> ListItemType(value, context), context |-> context, g |-> g]
    ELSE IF value.kind = "Dict" THEN
        [_get_ts_type(value.value_field, context, g)
            EXCEPT !.ts = "{[key: " \o MappingsGet(value.key_field.kind)
                          \o "]: " \o @ \o "}"]
    ELSE [ts |-> MappingsGet(value.kind), context |-> context, g |-> g]

\* the enum reference of a OneOf field, recorded in __enums
EnumType(name, value, context, g) ==
    [ts |-> name, context |-> context,
     g |-> RecordEnum(g, context.context, name, value.validate.choices)]

\* the field line: f'{indents}{key}: {ts_type};' with indents = '\t' * scope
FieldLine(key, value, typed) ==
    [line |-> StrRepeat("\t", typed.context.scope) \o DisplayKey(key, value)
              \o ": " \o NullUnion(typed.ts, value) \o ";",
     context |-> typed.context, g |-> typed.g]

\* one turn of the loop over schema._declared_fields.items()
FieldStep(key, value, context, g) ==
    FieldLine(key, value,
              IF context.oneof_as_enum /\ value.validate.type = "OneOf"
              THEN EnumType(_snake_to_pascal_case(key), value, context, g)
              ELSE _get_ts_type(value, context, g))

\* ts_fields.append(line)
Collect(ts_fields, step) ==
    [ts_fields |-> Append(ts_fields, step.line), context |-> step.context,
     g |-> step.g]

\* for key, value in schema._declared_fields.items(): ...
FieldLoop(items, i, acc) ==
    IF i > Len(items)
    THEN acc
    ELSE FieldLoop(items, i + 1,
                   Collect(acc.ts_fields,
                           FieldStep(items[i].key, items[i].value,
                                     acc.context, acc.g)))

\* the text returned: a named declaration at scope 1, a bare body deeper
InterfaceText(name, ts_fields, scope) ==
    IF scope = 1
    THEN "export interface " \o name \o " {\n" \o ts_fields \o "\n}\n\n"
    ELSE "{\n" \o ts_fields \o "\n" \o StrRepeat("\t", scope - 1) \o "}"

Declaration(name, loop) ==
    [ts |-> InterfaceText(name, StrJoin("\n", loop.ts_fields),
                          loop.context.scope),
     context |-> loop.context, g |-> loop.g]

_get_ts_interface(schema, context, g) ==
    Declaration(_format_type_name(schema, context),
                FieldLoop(DeclaredFields(schema), 1,
                          [ts_fields |-> <<>>, context |-> context, g |-> g]))

\* one enum field line: f'\t{choice.upper()} = "{choice}",'
EnumField(choice) == "\t" \o StrUpper(choice) \o " = \"" \o choice \o "\","

\* one enum block: f'export enum {key} {{\n{enum_fields}\n}}'
EnumExport(key, choices) ==
    "export enum " \o key \o " {\n"
    \o StrJoin("\n", [j \in 1..Len(choices) |-> EnumField(choices[j])])
    \o "\n}"

_generate_enums_exports(context, en) ==
    LET d == IF context \in DOMAIN en THEN en[context] ELSE EmptyDict
        enum_exports == [i \in 1..Len(d) |-> EnumExport(d[i].key, d[i].val)]
    IN IF Len(enum_exports) > 0
       THEN StrJoin("", enum_exports) \o "\n\n"
       ELSE ""


-----------------------------------------------------------------------------
(* generate_ts.                                                            *)

\* fcontext = _FormatterContext(); fcontext.context = context; ...
NewContext(context, strip_schema_keyword, oneof_as_enum, nested_inner) ==
    [_FormatterContext EXCEPT !.context = context,
                              !.strip_schema_keyword = strip_schema_keyword,
                              !.oneof_as_enum = oneof_as_enum,
                              !.nested_inner = nested_inner]

NoFile == [exists |-> FALSE, content |-> "", closed |-> TRUE]

\* open(output_path, 'w'): the file is created or truncated
Open == [exists |-> TRUE, content |-> "", closed |-> FALSE]

\* output_file.write(text)
Write(f, text) == [f EXCEPT !.content = @ \o text]

\* leaving the with block, normally or by an exception
Close(f) == [f EXCEPT !.closed = TRUE]

\* a lookup that forgives a missing context: __schemas.get(context, [])
SchemasForOrEmpty(reg, context) ==
    [raised |-> "none",
     list |-> IF context \in DOMAIN reg THEN reg[context] ELSE <<>>]

\* __schemas[fcontext.context]
SchemasFor(reg, context) ==
    IF context \in DOMAIN reg
    THEN [raised |-> "none", list |-> reg[context]]
    ELSE [raised |-> "KeyError", list |-> <<>>]

\* interfaces.append(_get_ts_interface(schema, fcontext))
CollectInterface(interfaces, r) ==
    [interfaces |-> Append(interfaces, r.ts), context |-> r.context, g |-> r.g]

RECURSIVE InterfacesLoop(_, _, _)
\* [_get_ts_interface(schema, fcontext) for schema in ...]
InterfacesLoop(list, i, acc) ==
    IF i > Len(list)
    THEN acc
    ELSE InterfacesLoop(list, i + 1,
                        CollectInterface(acc.interfaces,
                                         _get_ts_interface(list[i], acc.context,
                                                           acc.g)))

\* the with block when the list was found: both writes, then the close
WriteAll(gen) ==
    [raised |-> "none",
     output_file |->
        Close(Write(Write(Open,
                          _generate_enums_exports(gen.context.context,
                                                  gen.g.enums)),
                    StrJoin("", gen.interfaces))),
     enums |-> gen.g.enums, fcontext |-> gen.context,
     recorded |-> gen.g.recorded]

\* the with block: the list comprehension, the writes, the close
WithOpen(found, fc, en) ==
    IF found.raised # "none"
    THEN [raised |-> found.raised, output_file |-> Close(Open),
          enums |-> en, fcontext |-> fc, recorded |-> <<>>]
    ELSE WriteAll(InterfacesLoop(found.list, 1,
                                 [interfaces |-> <<>>, context |-> fc,
                                  g |-> [enums |-> en, recorded |-> <<>>]]))

GenerateWith(reg, en, fc) == WithOpen(SchemasFor(reg, fc.context), fc, en)

\* the state generate_ts leaves behind
generate_ts(reg, en, context, strip_schema_keyword, oneof_as_enum, nested_inner) ==
    GenerateWith(reg, en,
                 NewContext(context, strip_schema_keyword, oneof_as_enum,
                            nested_inner))

-----------------------------------------------------------------------------
(* The program: registrations and generation calls in any order.           *)

NoResult == [op |-> "none"]

Init ==
    /\ schemas = NoDict
    /\ enums = NoDict
    /\ output_file = NoFile
    /\ fcontext = _FormatterContext
    /\ raised = "none"
    /\ returned = "none"
    /\ regLog = <<>>
    /\ recorded = <<>>
    /\ calls = <<>>
    /\ result = NoResult
    /\ lastOp = "init"

\* @ts_interface(context=context) applied to cls
TsInterface(context, cls, limit) ==
    /\ Len(regLog) < limit
    /\ schemas' = decorator(schemas, context, cls)
    /\ returned' = cls
    /\ regLog' = Append(regLog, [cls |-> cls, context |-> context])
    /\ lastOp' = "ts_interface"
    /\ UNCHANGED <<enums, output_file, fcontext, raised, recorded, calls, result>>

\* the program's state after a call
Become(post) ==
    /\ enums' = post.enums
    /\ output_file' = post.output_file
    /\ fcontext' = post.fcontext
    /\ raised' = post.raised
    /\ recorded' = post.recorded

\* the effect of generate_ts(output_path, context, ...) on the program's state
GenerateEffect(context, strip_schema_keyword, oneof_as_enum, nested_inner) ==
    /\ Become(generate_ts(schemas, enums, context, strip_schema_keyword,
                          oneof_as_enum, nested_inner))
    /\ lastOp' = "generate_ts"
    /\ UNCHANGED <<schemas, returned, regLog, result>>

GenerateTs(context, strip_schema_keyword, oneof_as_enum, nested_inner) ==
    /\ GenerateEffect(context, strip_schema_keyword, oneof_as_enum, nested_inner)
    /\ UNCHANGED calls

Next ==
    \/ \E context \in Contexts, cls \in GenClasses :
          TsInterface(One(context), cls, MaxRegs)
    \/ \E context \in Contexts, strip \in BOOLEAN, oneof \in BOOLEAN,
          nested \in BOOLEAN : GenerateTs(context, strip, oneof, nested)

Spec == Init /\ [][Next]_vars

-----------------------------------------------------------------------------
(* Registrations alone, of every class, schema or not.                     *)

NextReg ==
    \E context \in ContextArgs, cls \in ClassNames :
        TsInterface(context, cls, MaxDecorations)

SpecReg == Init /\ [][NextReg]_vars

-----------------------------------------------------------------------------
(* Repeated generation on one context, with the calls remembered.          *)

\* what a call was given and what it wrote
CallRecord(context, strip_schema_keyword, oneof_as_enum, nested_inner, text) ==
    [schemas |-> schemas,
     config |-> <<context, strip_schema_keyword, oneof_as_enum, nested_inner>>,
     output |-> text]

GenerateTsLogged(context, strip_schema_keyword, oneof_as_enum, nested_inner) ==
    /\ Len(calls) < MaxCalls
    /\ GenerateEffect(context, strip_schema_keyword, oneof_as_enum, nested_inner)
    /\ calls' = Append(calls, CallRecord(context, strip_schema_keyword,
                                         oneof_as_enum, nested_inner,
                                         output_file'.content))

NextRerun ==
    \/ \E cls \in GenClasses : TsInterface(One("default"), cls, MaxRegs)
    \/ \E strip \in BOOLEAN, oneof \in BOOLEAN, nested \in BOOLEAN :
          GenerateTsLogged("default", strip, oneof, nested)

SpecRerun == Init /\ [][NextRerun]_vars

-----------------------------------------------------------------------------
(* The type mapper and the interface generator called directly, on every   *)
(* schema and field, under every configuration.                            *)

InitPure ==
    /\ schemas = NoDict
    /\ enums = NoDict
    /\ output_file = NoFile
    /\ fcontext \in {NewContext("default", strip, oneof, nested) :
                        strip \in BOOLEAN, oneof \in BOOLEAN, nested \in BOOLEAN}
    /\ raised = "none"
    /\ returned = "none"
    /\ regLog = <<>>
    /\ recorded = <<>>
    /\ calls = <<>>
    /\ result = NoResult
    /\ lastOp = "init"

\* the state a direct call leaves: the text returned, the context object
\* and __enums as the call left them
Returned(op, schema, index, r) ==
    /\ result' = [op |-> op, schema |-> schema, index |-> index, ts |-> r.ts]
    /\ fcontext' = r.context
    /\ enums' = r.g.enums
    /\ recorded' = r.g.recorded
    /\ lastOp' = op
    /\ UNCHANGED <<schemas, output_file, raised, returned, regLog, calls>>

GetTsInterface(schema) ==
    Returned("_get_ts_interface", schema, 0,
             _get_ts_interface(schema, fcontext,
                               [enums |-> enums, recorded |-> <<>>]))

GetTsType(schema, index) ==
    Returned("_get_ts_type", schema, index,
             _get_ts_type(DeclaredFields(schema)[index].value, fcontext,
                          [enums |-> enums, recorded |-> <<>>]))

NextPure ==
    \/ \E schema \in SchemaNames : GetTsInterface(schema)
    \/ \E schema \in SchemaNames :
          \E index \in 1..Len(DeclaredFields(schema)) : GetTsType(schema, index)

SpecPure == InitPure /\ [][NextPure]_vars

-----------------------------------------------------------------------------
(* Reading the generated text.                                             *)

Contains(text, pat) ==
    \E i \in 1..(Len(text) - Len(pat) + 1) : SubSeq(text, i, i + Len(pat) - 1) = pat

\* where pat occurs in text, in order
Occurrences(text, pat) ==
    LET At(i) == i + Len(pat) - 1 <= Len(text) /\ SubSeq(text, i, i + Len(pat) - 1) = pat
    IN SelectSeq([i \in 1..Len(text) |-> i], At)

\* the position of the first pat at or after position i (pat occurs there)
FirstAt(text, pat, i) ==
    CHOOSE j \in i..Len(text) :
        /\ SubSeq(text, j, j + Len(pat) - 1) = pat
        /\ \A k \in i..(j - 1) : SubSeq(text, k, k + Len(pat) - 1) # pat

\* the word that starts at position i and ends before the next space
WordAt(text, i) == SubSeq(text, i, FirstAt(text, " ", i) - 1)

\* the names declared after each occurrence of a keyword, in order
DeclaredAfter(text, keyword) ==
    LET occ == Occurrences(text, keyword)
    IN [k \in 1..Len(occ) |-> WordAt(text, occ[k] + Len(keyword))]

\* the k-th of the pieces that the line breaks at positions nl cut text into
Piece(text, nl, k) ==
    SubSeq(text,
           IF k = 1 THEN 1 ELSE nl[k - 1] + 1,
           IF k > Len(nl) THEN Len(text) ELSE nl[k] - 1)

LinesAt(text, nl) == [k \in 1..(Len(nl) + 1) |-> Piece(text, nl, k)]

\* the lines of a text: text.split('\n')
Lines(text) == LinesAt(text, Occurrences(text, "\n"))

\* the number of tabs a line starts with
LeadingTabs(line) ==
    CHOOSE n \in 0..Len(line) :
        /\ \A k \in 1..n : Char(line, k) = "\t"
        /\ n = Len(line) \/ Char(line, n + 1) # "\t"

\* the line closes an inline body or the declaration
Closes(line) ==
    Len(line) > LeadingTabs(line) /\ Char(line, LeadingTabs(line) + 1) = "}"

\* the lines of a declaration that start a field of the declared interface
FieldStarts(lines) ==
    LET Starts(i) == i > 1 /\ LeadingTabs(lines[i]) = 1 /\ ~Closes(lines[i])
    IN SelectSeq([i \in 1..Len(lines) |-> i], Starts)

\* the key of a field line: what stands between the tabs and the colon
KeyOf(line) == SubSeq(line, LeadingTabs(line) + 1, FirstAt(line, ":", 1) - 1)

\* the last line of the k-th field of a declaration
LastLineOf(lines, starts, k) ==
    IF k < Len(starts) THEN lines[starts[k + 1] - 1] ELSE lines[Len(lines) - 3]

RECURSIVE Indented(_, _, _, _)
\* every line from the i-th to the n-th is indented by the number of bodies
\* open around it, a closing line by one less, and every body is closed
Indented(lines, i, depth, n) ==
    IF i > n THEN depth = 0
    ELSE /\ LeadingTabs(lines[i]) = (IF Closes(lines[i]) THEN depth - 1 ELSE depth)
         /\ Indented(lines, i + 1,
                     (IF Closes(lines[i]) THEN depth - 1 ELSE depth)
                     + (IF EndsWith(lines[i], "{") THEN 1 ELSE 0), n)

\* the fields of a schema, described as the text should show them
FieldsShown(items, lines, starts) ==
    /\ Len(starts) = Len(items)
    /\ \A k \in 1..Len(items) :
        /\ KeyOf(lines[starts[k]])
             = items[k].key \o (IF items[k].value.required THEN "" ELSE "?")
        /\ EndsWith(LastLineOf(lines, starts, k), "| null;")
             <=> items[k].value.allow_none

Scalar(value) == value.kind \notin {"Nested", "List", "Dict"}

Plain(schema) ==
    \A k \in 1..Len(DeclaredFields(schema)) :
        LET value == DeclaredFields(schema)[k].value
        IN Scalar(value) /\ value.required /\ ~value.allow_none

\* the name a schema's own declaration carries under the current configuration
DeclaredName(schema) ==
    DeclaredAfter(_get_ts_interface(schema, fcontext,
                                    [enums |-> enums, recorded |-> <<>>]).ts,
                  "export interface ")[1]

\* the field a direct call of _get_ts_type was given
ResultField == DeclaredFields(result.schema)[result.index].value

\* the type a field gets when it stands alone in a field line
StandaloneType(value) ==
    NullUnion(_get_ts_type(value, fcontext,
                           [enums |-> enums, recorded |-> <<>>]).ts, value)

RECURSIVE OneOfsFrom(_, _)
\* the closed-choice fields of a list of fields, with their derived names
OneOfsFrom(items, k) ==
    IF k > Len(items) THEN <<>>
    ELSE (IF items[k].value.validate.type = "OneOf"
          THEN <<[key |-> _snake_to_pascal_case(items[k].key),
                  val |-> items[k].value.validate.choices]>>
          ELSE <<>>) \o OneOfsFrom(items, k + 1)

RECURSIVE RegisteredOneOfs(_, _)
\* the closed-choice fields of the schemas registered in a list
RegisteredOneOfs(list, i) ==
    IF i > Len(list) THEN <<>>
    ELSE OneOfsFrom(DeclaredFields(list[i]), 1) \o RegisteredOneOfs(list, i + 1)

PairwiseDistinct(seq) ==
    \A i, j \in 1..Len(seq) : i # j => seq[i].key # seq[j].key

\* __enums.get(context, {})
EnumsOf(context) == IF context \in DOMAIN enums THEN enums[context] ELSE EmptyDict

\* a generate_ts call has just returned normally
Generated == lastOp = "generate_ts" /\ raised = "none"

RECURSIVE NamedIn(_, _, _)
\* the schemas the log registers with a context, one per mention, in order
NamedIn(ctx, log, i) ==
    IF i > Len(log) THEN <<>>
    ELSE LET names == IF log[i].context.is_list
                      THEN log[i].context.names
                      ELSE <<log[i].context.name>>
             Mentions(k) == names[k] = ctx
             times == Len(SelectSeq([k \in 1..Len(names) |-> k], Mentions))
         IN (IF IsSchema(log[i].cls)
             THEN [k \in 1..times |-> log[i].cls]
             ELSE <<>>) \o NamedIn(ctx, log, i + 1)

-----------------------------------------------------------------------------
(* The claims.                                                             *)

\* C1: after a generation pass with oneof_as_enum over a context whose
\* registered schemas hold several closed-choice fields with pairwise distinct
\* derived names, the enum map of the context holds every one of them with
\* its choices in declared order, and the output holds an enum block for
\* every one of them.
C1_EveryEnumKept ==
    (/\ Generated
     /\ fcontext.oneof_as_enum
     /\ Len(RegisteredOneOfs(schemas[fcontext.context], 1)) >= 2
     /\ PairwiseDistinct(RegisteredOneOfs(schemas[fcontext.context], 1)))
    => \A k \in 1..Len(RegisteredOneOfs(schemas[fcontext.context], 1)) :
          LET e == RegisteredOneOfs(schemas[fcontext.context], 1)[k]
          IN /\ DictHas(EnumsOf(fcontext.context), e.key)
             /\ DictGet(EnumsOf(fcontext.context), e.key) = e.val
             /\ Contains(output_file.content, EnumExport(e.key, e.val))

\* C2: any two generate_ts calls made with the same registry state and the
\* same configuration wrote the same text.
C2_SameInputsSameOutput ==
    \A i, j \in 1..Len(calls) :
        (calls[i].schemas = calls[j].schemas /\ calls[i].config = calls[j].config)
        => calls[i].output = calls[j].output

\* C3: a generate_ts call for a context no registration populated raises
\* KeyError, leaves the output file created, empty and closed, and leaves the
\* registry and the enum map as they were.
C3_MissingContextAborts ==
    [][(lastOp' = "generate_ts" /\ fcontext'.context \notin DOMAIN schemas)
       => /\ raised' = "KeyError"
          /\ output_file' = [exists |-> TRUE, content |-> "", closed |-> TRUE]
          /\ schemas' = schemas
          /\ enums' = enums]_vars

\* C3 happens: a call on a missing context has failed while another context
\* is populated and the enum map holds enums of earlier calls.
C3_Witness ==
    /\ lastOp = "generate_ts"
    /\ raised = "KeyError"
    /\ fcontext.context \notin DOMAIN schemas
    /\ DOMAIN schemas # {}
    /\ DOMAIN enums # {}
    /\ output_file = [exists |-> TRUE, content |-> "", closed |-> TRUE]

\* C4: a reference to a schema by name carries the name of the schema's own
\* declaration: a Nested field referenced by name gives that name (followed
\* by [] with many), a List of a Nested gives that name followed by [].
C4_ReferencesUseDeclaredName ==
    result.op = "_get_ts_type"
    => /\ (ResultField.kind = "Nested" /\ ~fcontext.nested_inner)
            => result.ts = DeclaredName(ResultField.nested)
                           \o (IF ResultField.many THEN "[]" ELSE "")
       /\ (ResultField.kind = "List" /\ ResultField.inner.kind = "Nested")
            => result.ts = DeclaredName(ResultField.inner.nested) \o "[]"

\* C5: a generated interface has one field per declared field, in declaration
\* order, whose key ends in ? exactly when the field is not required and whose
\* type ends in the null union exactly when the field allows None; a schema of
\* required, non-nullable scalar fields shows no ? and no null union.
C5_FieldsAsDeclared ==
    result.op = "_get_ts_interface"
    => /\ FieldsShown(DeclaredFields(result.schema), Lines(result.ts),
                      FieldStarts(Lines(result.ts)))
       /\ Plain(result.schema)
            => ~Contains(result.ts, "?") /\ ~Contains(result.ts, "| null")

\* C5 happens: an interface with an optional, nullable, enum-typed field and
\* a required one has been generated.
C5_Witness ==
    /\ result.op = "_get_ts_interface"
    /\ result.schema = "AccountSchema"
    /\ Contains(result.ts, "\n\tstatus: Status;\n\tuser_role?: UserRole| null;\n")

\* C6: the list of every context holds, in call order, the schemas registered
\* with that context, once per mention; a context has a list exactly when a
\* schema was registered with it; the decorator returned the class it got.
C6_RegistryIsTheLog ==
    /\ DOMAIN schemas \subseteq Contexts
    /\ \A ctx \in Contexts :
          IF NamedIn(ctx, regLog, 1) # <<>>
          THEN ctx \in DOMAIN schemas /\ schemas[ctx] = NamedIn(ctx, regLog, 1)
          ELSE ctx \notin DOMAIN schemas
    /\ regLog # <<>> => returned = regLog[Len(regLog)].cls

\* C6 happens: a schema was registered twice with one context, once through
\* a list of contexts, and a class that is no schema came last.
C6_Witness ==
    /\ Len(regLog) = 3
    /\ regLog[2].context.is_list
    /\ returned = "Widget"
    /\ DOMAIN schemas = Contexts
    /\ schemas["default"] = <<"UserSchema", "UserSchema">>
    /\ schemas["internal"] = <<"UserSchema">>

\* C7: in the text of one call every enum block precedes every interface
\* block, every enum recorded during the call has a block, and the interface
\* blocks are those of the registry list, in its order.
C7_EnumsThenInterfaces ==
    Generated
    => /\ \A e \in 1..Len(Occurrences(output_file.content, "export enum ")) :
            \A d \in 1..Len(Occurrences(output_file.content, "export interface ")) :
                Occurrences(output_file.content, "export enum ")[e]
                  < Occurrences(output_file.content, "export interface ")[d]
       /\ \A k \in 1..Len(recorded) :
            Contains(output_file.content, "export enum " \o recorded[k].key \o " {")
       /\ DeclaredAfter(output_file.content, "export interface ")
            = [i \in 1..Len(schemas[fcontext.context]) |->
                  _format_type_name(schemas[fcontext.context][i], fcontext)]

\* C8: with nested_inner the scope is back at 1 when a call returns, every
\* line of the declaration is indented by the number of bodies open around
\* it and a closing brace by one less, and only the outermost body is a named
\* export interface.
C8_ScopeRestored ==
    fcontext.nested_inner
    => /\ fcontext.scope = 1
       /\ result.op = "_get_ts_interface"
            => /\ Indented(Lines(result.ts), 1, 0, Len(Lines(result.ts)) - 2)
               /\ Occurrences(result.ts, "export interface ") = <<1>>

\* C8 happens: a declaration with bodies nested three deep, and a sibling
\* field after them, has been generated.
C8_Witness ==
    /\ fcontext.nested_inner
    /\ result.op = "_get_ts_interface"
    /\ result.schema = "TeamSchema"
    /\ Contains(result.ts, "\n\t\t\tfriends?: UserSchema[];\n\t\t}[];\n")
    /\ Contains(result.ts, "\n\t}| null;\n\tname: string;\n")

\* C9: a Dict field resolves to {[key: K]: V} with K the table entry of the
\* key kind and V the type the value field gets when it stands alone, its
\* null union included.
C9_MappingResolved ==
    (result.op = "_get_ts_type" /\ ResultField.kind = "Dict")
    => result.ts = "{[key: " \o MappingsGet(ResultField.key_field.kind) \o "]: "
                   \o StandaloneType(ResultField.value_field) \o "}"

\* C10: every enum block a call writes was recorded by that call; a call
\* without oneof_as_enum writes none.
C10_OnlyThisCallsEnums ==
    Generated
    => /\ \A e \in 1..Len(DeclaredAfter(output_file.content, "export enum ")) :
            \E k \in 1..Len(recorded) :
                recorded[k].key
                  = DeclaredAfter(output_file.content, "export enum ")[e]
       /\ ~fcontext.oneof_as_enum
            => ~Contains(output_file.content, "export enum ")

=============================================================================
